---- MODULE Spec2Model ----
(***************************************************************************)
(* RingBuffer (src/src/ring-buffer.ts, lines 1-584) and BinarySearchArray  *)
(* (src/src/binary-search.ts) as a state machine.                          *)
(*                                                                         *)
(* The backing store is a JavaScript array: `buffer` is a sequence whose   *)
(* element k+1 is the JavaScript slot buffer[k]; a hole and `undefined`    *)
(* are both the Empty marker; a read past the end yields Empty, a write    *)
(* past the end extends the array, and assigning buffer.length truncates   *)
(* or pads it.                                                             *)
(***************************************************************************)
EXTENDS Integers, Sequences, FiniteSets, TLC

VARIABLES buffer, head, tail, mask, length, call, ret, pre, model, calls

vars == <<buffer, head, tail, mask, length, call, ret, pre, model, calls>>

----------------------------------------------------------------------------
(* Bounds of the exploration and the program's constants.                  *)

DEFAULT_CAPACITY == 8

\* the `undefined` / hole marker of Array<T | undefined>
Empty == 0

\* the element values the callers store
Values == {1, 2}

\* no call is explored that would make the capacity exceed MaxCap
MaxCap == 16

\* no call is explored that would make length exceed MaxLen
MaxLen == 9

\* a run is any number of push, unshift, pop and shift calls on a constructed
\* object, followed by at most MaxCalls calls of any kind
MaxCalls == 2

\* the callers store mostly the value 1: a call that stores the value 2 is
\* explored only while the backing array holds fewer than MaxTwos slots with 2
MaxTwos == 1

\* the values inserted into a BinarySearchArray are 1..MaxKey
MaxKey == 3

\* no insert is explored that would make the length of a BinarySearchArray
\* exceed MaxSortedLen, or the capacity of its RingBuffer exceed MaxSortedCap:
\* enough for the capacity to double twice
MaxSortedLen == 16

MaxSortedCap == 32

----------------------------------------------------------------------------
(* JavaScript primitives.                                                  *)

Min(a, b) == IF a < b THEN a ELSE b

Max(a, b) == IF a > b THEN a ELSE b

RECURSIVE BitLength(_)
BitLength(n) == IF n <= 0 THEN 0 ELSE 1 + BitLength(n \div 2)

\* Math.clz32 on an int32: a negative number has its top bit set
Clz32(n) == IF n < 0 THEN 0 ELSE 32 - BitLength(n)

\* 1 << k: the shift count is taken modulo 32
Shl1(k) == 2 ^ (k % 32)

\* x & mask, for a mask of the form 2^k - 1
And(x, m) == x % (m + 1)

\* buffer[k]
Get(b, k) == IF k >= 0 /\ k < Len(b) THEN b[k + 1] ELSE Empty

\* buffer[k] = v
Put(b, k, v) ==
  IF k < Len(b) THEN [b EXCEPT ![k + 1] = v]
  ELSE [i \in 1..(k + 1) |-> IF i <= Len(b) THEN b[i] ELSE IF i = k + 1 THEN v ELSE Empty]

\* buffer.length = n
SetLength(b, n) == [i \in 1..n |-> IF i <= Len(b) THEN b[i] ELSE Empty]

\* new Array(n)
NewArray(n) == [i \in 1..n |-> Empty]

\* Array.prototype.indexOf(value, fromIndex)
ArrayIndexOf(b, value, fromIndex) ==
  LET k == IF fromIndex >= 0 THEN fromIndex ELSE Max(Len(b) + fromIndex, 0)
      hits == {j \in k..(Len(b) - 1) : b[j + 1] = value}
  IN IF hits = {} THEN -1 ELSE CHOOSE j \in hits : \A h \in hits : j <= h

\* Array.prototype.slice(start, end)
ArraySlice(b, start, end) ==
  LET k == IF start < 0 THEN Max(Len(b) + start, 0) ELSE Min(start, Len(b))
      final == IF end < 0 THEN Max(Len(b) + end, 0) ELSE Min(end, Len(b))
  IN [i \in 1..Max(final - k, 0) |-> b[k + i]]

\* the array after Array.prototype.splice(index, deleteCount, ...items), index >= 0
ArraySplice(b, index, deleteCount, items) ==
  ArraySlice(b, 0, index) \o items \o ArraySlice(b, Min(index + Max(deleteCount, 0), Len(b)), Len(b))

----------------------------------------------------------------------------
(* The object: `this` as a record of the private fields.                   *)

This == [buffer |-> buffer, head |-> head, tail |-> tail, mask |-> mask, length |-> length]

\* the constructor with the size computed from capacity instead of capacity - 1
RingBufferAbove(cap) ==
  LET size == Max(Shl1(32 - Clz32(cap)), DEFAULT_CAPACITY)
  IN [buffer |-> NewArray(size), head |-> 0, tail |-> 0, mask |-> size - 1, length |-> 0]

\* constructor(capacity = DEFAULT_CAPACITY)
RingBuffer(cap) ==
  LET size == Max(Shl1(32 - Clz32(cap - 1)), DEFAULT_CAPACITY)
  IN [buffer |-> NewArray(size), head |-> 0, tail |-> 0, mask |-> size - 1, length |-> 0]

\* from with the buffer constructed for n values instead of n + 1
fromExact(values) ==
  LET n == Len(values)
      ring == RingBuffer(n)
  IN [ring EXCEPT !.buffer = [i \in 1..Max(Len(ring.buffer), n) |-> IF i <= n THEN values[i] ELSE Empty],
                  !.head = 0, !.tail = n, !.length = n]

\* static from(values)
from(values) ==
  LET n == Len(values)
      ring == RingBuffer(n + 1)
  IN [ring EXCEPT !.buffer = [i \in 1..Len(ring.buffer) |-> IF i <= n THEN values[i] ELSE Empty],
                  !.head = 0, !.tail = n, !.length = n]

capacity(r) == r.mask + 1

isEmpty(r) == r.tail = r.head

isWrapped(r) == r.head > r.tail

getHeadOffset(r, index) == And(r.head + index, r.mask)

getTailOffset(r, index) == And(r.tail + index, r.mask)

----------------------------------------------------------------------------
(* grow, push, unshift, shift, pop.                                        *)

\* grow: for (let i = 0; i < oldTail; i++) buffer[bufferLength + i] = buffer[i]
RECURSIVE growCopy(_, _, _, _)
growCopy(b, i, oldTail, bufferLength) ==
  IF i >= oldTail THEN b
  ELSE growCopy(Put(b, bufferLength + i, Get(b, i)), i + 1, oldTail, bufferLength)

\* the size grow(capacity) gives the backing array
growSize(cap) == Shl1(32 - Clz32(cap))

\* grow without the relocation of the wrapped segment
growInPlace(r, cap) ==
  IF Len(r.buffer) >= cap + 1 THEN r
  ELSE [r EXCEPT !.buffer = SetLength(r.buffer, growSize(cap)), !.mask = growSize(cap) - 1]

grow(r, cap) ==
  LET bufferLength == Len(r.buffer)
      size == growSize(cap)
      b1 == SetLength(r.buffer, size)
      oldTail == r.tail
  IN IF bufferLength >= cap + 1 THEN r
     ELSE IF oldTail < r.head
          THEN [r EXCEPT !.buffer = growCopy(b1, 0, oldTail, bufferLength),
                         !.tail = bufferLength + oldTail,
                         !.mask = size - 1]
          ELSE [r EXCEPT !.buffer = b1, !.mask = size - 1]

push(r, value) ==
  LET nextTail == And(r.tail + 1, r.mask)
  IN IF nextTail = r.head
     THEN LET g == grow(r, r.mask + 2)
          IN [g EXCEPT !.buffer = Put(g.buffer, g.tail, value),
                       !.tail = And(g.tail + 1, g.mask),
                       !.length = g.length + 1]
     ELSE [r EXCEPT !.buffer = Put(r.buffer, r.tail, value),
                    !.tail = nextTail,
                    !.length = r.length + 1]

unshift(r, value) ==
  LET newHead == And(r.head - 1, r.mask)
      g == IF newHead = r.tail THEN grow(r, r.mask + 2) ELSE r
      h == IF newHead = r.tail THEN And(g.head - 1, g.mask) ELSE newHead
  IN [g EXCEPT !.head = h, !.buffer = Put(g.buffer, h, value), !.length = g.length + 1]

\* shift and pop give the new object and the value returned
shift(r) ==
  IF r.head = r.tail THEN [self |-> r, value |-> Empty]
  ELSE [self |-> [r EXCEPT !.buffer = Put(r.buffer, r.head, Empty),
                           !.head = And(r.head + 1, r.mask),
                           !.length = r.length - 1],
        value |-> Get(r.buffer, r.head)]

pop(r) ==
  IF r.head = r.tail THEN [self |-> r, value |-> Empty]
  ELSE LET t == And(r.tail - 1, r.mask)
       IN [self |-> [r EXCEPT !.buffer = Put(r.buffer, t, Empty),
                              !.tail = t,
                              !.length = r.length - 1],
           value |-> Get(r.buffer, t)]

----------------------------------------------------------------------------
(* Reads.                                                                  *)

peekAt(r, index) ==
  IF index < 0 \/ index >= r.length THEN Empty
  ELSE Get(r.buffer, getHeadOffset(r, index))

peekFirst(r) == Get(r.buffer, r.head)

peekLast(r) == Get(r.buffer, getTailOffset(r, -1))

slice(r, start, end) ==
  LET actualStart == IF start < 0 THEN Max(r.length + start, 0) ELSE Min(start, r.length)
      actualEnd == IF end < 0 THEN Max(r.length + end, 0) ELSE Min(end, r.length)
      size == Max(actualEnd - actualStart, 0)
  IN IF r.head <= r.tail
     THEN ArraySlice(r.buffer, And(r.head + actualStart, r.mask), And(r.head + actualEnd, r.mask))
     ELSE [i \in 1..size |-> Get(r.buffer, And(r.head + actualStart + i - 1, r.mask))]

toArray(r) == slice(r, 0, r.length)

indexOf(r, value, index0) ==
  LET b == r.buffer
      firstSegmentLength == Len(b) - r.head
      first == ArrayIndexOf(b, value, r.head + index0)
      index == IF index0 < firstSegmentLength THEN firstSegmentLength ELSE index0
      second == ArrayIndexOf(b, value, 0)
  IN IF r.head < r.tail
     THEN IF first # -1 /\ first < r.tail THEN first - r.head ELSE -1
     ELSE IF index0 < firstSegmentLength /\ first # -1 THEN first - r.head
     ELSE IF index < r.length /\ second # -1 /\ second < r.tail
          THEN firstSegmentLength + second
     ELSE -1

has(r, value) == indexOf(r, value, 0) # -1

----------------------------------------------------------------------------
(* Loops over the backing array.  A loop that copies slot by slot is the   *)
(* sequence of its <<read, write>> offsets, applied in the loop's order.   *)

\* buffer[write] = buffer[read] for each pair; with mode "clear" also
\* buffer[read] = undefined, with "clearIfMoved" only when read !== write
RECURSIVE Moves(_, _, _)
Moves(b, ms, mode) ==
  IF ms = <<>> THEN b
  ELSE LET read == Head(ms)[1]
           write == Head(ms)[2]
           b1 == Put(b, write, Get(b, read))
           b2 == IF mode = "clear" \/ (mode = "clearIfMoved" /\ read # write)
                 THEN Put(b1, read, Empty) ELSE b1
       IN Moves(b2, Tail(ms), mode)

\* buffer[k] = undefined for each offset k of ks
RECURSIVE Clears(_, _)
Clears(b, ks) == IF ks = <<>> THEN b ELSE Clears(Put(b, Head(ks), Empty), Tail(ks))

\* buffer[base + i] = values[i] under the mask
RECURSIVE Writes(_, _, _, _)
Writes(b, base, m, values) ==
  IF values = <<>> THEN b
  ELSE Writes(Put(b, And(base, m), Head(values)), base + 1, m, Tail(values))

----------------------------------------------------------------------------
(* resize.                                                                 *)

\* the capacity resize(capacity) and the constructor round to
roundSize(cap) == Max(Shl1(32 - Clz32(cap - 1)), DEFAULT_CAPACITY)

\* resize's refusal checks
resizeRefused(r, cap) ==
  LET bufferLength == Len(r.buffer)
  IN \/ bufferLength > cap /\ (bufferLength \div 2) < cap
     \/ roundSize(cap) < r.length

resize(r, cap) ==
  LET b == r.buffer
      bufferLength == Len(b)
      size == roundSize(cap)
      len == r.length
      h == r.head
      prevMask == r.mask
      prevTail == r.tail
      nextMask == size - 1
      nextTail == And(h + len, nextMask)
      wrapIndex == IF size > bufferLength
                   THEN (IF prevTail < h THEN bufferLength - h ELSE len)
                   ELSE (IF nextTail < h THEN size - h ELSE len)
      \* for (let i = length - 1; i >= wrapIndex; i--)
      ms == [j \in 1..Max(len - wrapIndex, 0) |->
               <<And(h + (len - j), prevMask), And(h + (len - j), nextMask)>>]
  IN IF resizeRefused(r, cap) THEN [self |-> r, ok |-> FALSE]
     ELSE [self |-> [r EXCEPT !.buffer = SetLength(Moves(b, ms, "clearIfMoved"), size),
                              !.tail = nextTail,
                              !.mask = nextMask],
           ok |-> TRUE]

----------------------------------------------------------------------------
(* allocate and deallocate.                                                *)

\* the refusal check without the test of count
allocateRefusedByIndex(index, count) == index < 0

\* allocate's refusal check
allocateRefused(index, count) == index < 0 \/ count <= 0

allocate(r, index0, count) ==
  LET prevLength == r.length
      index == Min(index0, prevLength)
      h == r.head
      t == r.tail
      prevMask == r.mask
      nextLength == count + prevLength
      wrapIndex == Len(r.buffer) - h
      wrapped == h > t
      grows == nextLength >= Len(r.buffer)
      size == Shl1(32 - Clz32(nextLength))
      b0 == IF grows THEN SetLength(r.buffer, size) ELSE r.buffer
      m == IF grows THEN size - 1 ELSE prevMask
      isResized == prevMask # m
      leftMoveCount == index
      rightMoveCount == prevLength - index
      \* for (let i = 0; i < tail; i++): the wrapped segment goes behind the head segment
      un == [j \in 1..t |-> <<j - 1, And(h + wrapIndex + j - 1, m)>>]
      b1 == IF isResized /\ wrapped THEN Moves(b0, un, "clear") ELSE b0
      writeBase == And(h - count, m)
      left == [j \in 1..leftMoveCount |-> <<And(h + j - 1, m), And(writeBase + j - 1, m)>>]
      right == [j \in 1..rightMoveCount |->
                  <<And(h + index + (rightMoveCount - j), m),
                    And(h + index + count + (rightMoveCount - j), m)>>]
  IN IF allocateRefused(index0, count) THEN [self |-> r, ok |-> FALSE]
     ELSE IF leftMoveCount < rightMoveCount
     THEN [self |-> [r EXCEPT !.buffer = Moves(b1, left, "clear"),
                              !.mask = m,
                              !.head = writeBase,
                              !.length = nextLength],
           ok |-> TRUE]
     ELSE [self |-> [r EXCEPT !.buffer = Moves(b1, right, "clear"),
                              !.mask = m,
                              !.tail = And(h + nextLength, m),
                              !.length = nextLength],
           ok |-> TRUE]

deallocate(r, index, count) ==
  LET prevLength == r.length
      actualCount == Min(count, prevLength - index)
      nextLength == prevLength - actualCount
      b == r.buffer
      h == r.head
      t == r.tail
      m == r.mask
      leftMoveCount == index
      rightMoveCount == prevLength - index - actualCount
      front == [j \in 1..actualCount |-> And(h + j - 1, m)]
      back == [j \in 1..actualCount |-> And(t - (j - 1) - 1, m)]
      \* for (let i = leftMoveCount - 1; i >= 0; i--)
      left == [j \in 1..leftMoveCount |->
                 <<And(h + (leftMoveCount - j), m), And(h + (leftMoveCount - j) + actualCount, m)>>]
      \* for (let i = 0; i < rightMoveCount; i++)
      right == [j \in 1..rightMoveCount |->
                  <<And(h + index + actualCount + j - 1, m), And(h + index + j - 1, m)>>]
      \* buffer[(tail + i) & mask] = undefined, tail being the tail before the call
      behind == [j \in 1..actualCount |-> And(t + j - 1, m)]
  IN IF index < 0 \/ index >= prevLength \/ count <= 0 THEN [self |-> r, ok |-> FALSE]
     ELSE IF index = 0
     THEN [self |-> [r EXCEPT !.buffer = Clears(b, front),
                              !.head = And(h + actualCount, m),
                              !.length = nextLength],
           ok |-> TRUE]
     ELSE IF index + actualCount = prevLength
     THEN [self |-> [r EXCEPT !.buffer = Clears(b, back),
                              !.tail = And(t - actualCount, m),
                              !.length = nextLength],
           ok |-> TRUE]
     ELSE IF leftMoveCount < rightMoveCount
     THEN [self |-> [r EXCEPT !.buffer = Clears(Moves(b, left, "keep"), front),
                              !.head = And(h + actualCount, m),
                              !.length = nextLength],
           ok |-> TRUE]
     ELSE [self |-> [r EXCEPT !.buffer = Clears(Moves(b, right, "keep"), behind),
                              !.tail = And(t - actualCount, m),
                              !.length = nextLength],
           ok |-> TRUE]

----------------------------------------------------------------------------
(* unwrap, compact, clear.                                                 *)

unwrap(r) ==
  LET len == r.length
      b == r.buffer
      prevHead == r.head
      prevTail == r.tail
      bufferLength == Len(b)
      \* buffer[bufferLength + i] = buffer[i]; buffer[i] = undefined
      out == [j \in 1..prevTail |-> <<j - 1, bufferLength + j - 1>>]
      b1 == IF prevHead > prevTail
            THEN Moves(SetLength(b, bufferLength + prevTail), out, "clear")
            ELSE b
      \* buffer[i] = buffer[prevHead + i]
      down == [j \in 1..len |-> <<prevHead + j - 1, j - 1>>]
  IN IF isEmpty(r) THEN [self |-> r, ok |-> FALSE]
     ELSE [self |-> [r EXCEPT !.buffer = SetLength(Moves(b1, down, "keep"), r.mask + 1),
                              !.head = 0,
                              !.tail = len,
                              !.length = len],
           ok |-> TRUE]

\* the predicates handed to compact: keep everything, keep nothing, keep the
\* elements equal to 1, keep all but the first element
Filters == {"all", "none", "ones", "rest"}

filter(f, value, index) ==
  CASE f = "all" -> TRUE
    [] f = "none" -> FALSE
    [] f = "ones" -> value = 1
    [] f = "rest" -> index > 0

\* Array.prototype.filter from position i on: the elements the predicate keeps,
\* each tested with its index in the array
RECURSIVE ArrayFilter(_, _, _)
ArrayFilter(b, f, i) ==
  IF i > Len(b) THEN <<>>
  ELSE (IF filter(f, b[i], i - 1) THEN <<b[i]>> ELSE <<>>) \o ArrayFilter(b, f, i + 1)

\* compact's first loop: the array and the write counter after reading `read` slots
RECURSIVE compactLoop(_, _, _, _, _)
compactLoop(r, f, b, read, write) ==
  IF read >= r.length THEN [buffer |-> b, write |-> write]
  ELSE LET value == Get(b, And(r.head + read, r.mask))
       IN IF filter(f, value, read)
          THEN compactLoop(r, f,
                           IF read # write THEN Put(b, And(r.head + write, r.mask), value) ELSE b,
                           read + 1, write + 1)
          ELSE compactLoop(r, f, b, read + 1, write)

compact(r, f) ==
  LET done == compactLoop(r, f, r.buffer, 0, 0)
      write == done.write
      \* bufferLength is read before the first loop
      shrinks == 2 * write < Len(r.buffer)
      size == Shl1(32 - Clz32(write - 1))
      b1 == IF shrinks THEN SetLength(done.buffer, size) ELSE done.buffer
      bufferLength == IF shrinks THEN size ELSE Len(r.buffer)
      \* for (let i = write; i < bufferLength; i++) buffer[i] = undefined
      rest == [j \in 1..(bufferLength - write) |-> write + j - 1]
  IN IF isEmpty(r) THEN [self |-> r, ok |-> FALSE]
     ELSE IF write = r.length THEN [self |-> [r EXCEPT !.buffer = done.buffer], ok |-> FALSE]
     ELSE [self |-> [r EXCEPT !.buffer = Clears(b1, rest),
                              !.head = 0,
                              !.tail = write,
                              !.length = write],
           ok |-> TRUE]

\* clear without the truncation to length 0: the slots below DEFAULT_CAPACITY
\* keep what they held
clearTruncate(r) ==
  [buffer |-> SetLength(r.buffer, DEFAULT_CAPACITY), head |-> 0, tail |-> 0,
   length |-> 0, mask |-> DEFAULT_CAPACITY - 1]

\* clear: buffer.length = 0; buffer.length = DEFAULT_CAPACITY
clear(r) ==
  [buffer |-> NewArray(DEFAULT_CAPACITY), head |-> 0, tail |-> 0,
   length |-> 0, mask |-> DEFAULT_CAPACITY - 1]

\* next() of the iterator of drain()
drainNext(r) ==
  IF r.length = 0 THEN [self |-> r, done |-> TRUE, value |-> Empty]
  ELSE [self |-> shift(r).self, done |-> FALSE, value |-> shift(r).value]

\* [Symbol.iterator]: the values next() yields from the count-th call on;
\* value = buffer[idx]; idx = (idx + 1) & mask; count++
RECURSIVE iterValues(_, _, _, _, _)
iterValues(b, m, len, idx, count) ==
  IF count >= len THEN <<>>
  ELSE <<Get(b, idx)>> \o iterValues(b, m, len, And(idx + 1, m), count + 1)

\* iter(): the values of the iterator created on r, consumed until done
iter(r) == iterValues(r.buffer, r.mask, r.length, r.head, 0)

----------------------------------------------------------------------------
(* set, setOne, removeOne, removeFirst, remove.                            *)

set(r, index, values, insert) ==
  LET len == r.length
      count == Len(values)
      extra == Max(index + count - len, 0)
      a == IF insert THEN allocate(r, index, count).self
           ELSE IF extra > 0 THEN allocate(r, len, extra).self
           ELSE r
  IN IF index < 0 \/ index > len THEN [self |-> r, ok |-> FALSE]
     ELSE [self |-> [a EXCEPT !.buffer = Writes(a.buffer, a.head + index, a.mask, values)],
           ok |-> TRUE]

setOne(r, index, value, insert) ==
  LET len == r.length
      extra == Max(index + 1 - len, 0)
      a == IF insert THEN allocate(r, index, 1).self
           ELSE IF extra > 0 THEN allocate(r, len, extra).self
           ELSE r
  IN IF index < 0 \/ index > len THEN [self |-> r, ok |-> FALSE]
     ELSE [self |-> [a EXCEPT !.buffer = Put(a.buffer, And(a.head + index, a.mask), value)],
           ok |-> TRUE]

removeOne(r, index) ==
  LET len == r.length
      b == r.buffer
      m == r.mask
      h == r.head
      leftMoveCount == index
      rightMoveCount == len - index
      \* for (let i = index; i > 0; i--) buffer[(head + i) & mask] = buffer[(head + i - 1) & mask]
      left == [j \in 1..index |->
                 <<And(h + (index - j + 1) - 1, m), And(h + (index - j + 1), m)>>]
      \* for (let i = index; i < length - 1; i++) buffer[(head + i) & mask] = buffer[(head + i + 1) & mask]
      right == [j \in 1..(len - 1 - index) |->
                  <<And(h + (index + j - 1) + 1, m), And(h + (index + j - 1), m)>>]
      t == And(h + len - 1, m)
  IN IF index < 0 \/ index >= len THEN [self |-> r, index |-> -1]
     ELSE IF leftMoveCount < rightMoveCount
     THEN [self |-> [r EXCEPT !.buffer = Put(Moves(b, left, "keep"), h, Empty),
                              !.head = And(h + 1, m),
                              !.length = len - 1],
           index |-> index]
     ELSE [self |-> [r EXCEPT !.buffer = Put(Moves(b, right, "keep"), t, Empty),
                              !.tail = t,
                              !.length = len - 1],
           index |-> index]

removeFirst(r, value, index) ==
  LET foundIndex == indexOf(r, value, index)
  IN IF foundIndex = -1 THEN [self |-> r, index |-> -1]
     ELSE removeOne(r, foundIndex)

remove(r, index, count) ==
  [self |-> deallocate(r, index, count).self, result |-> slice(r, index, index + count)]

----------------------------------------------------------------------------
(* BinarySearchArray: a RingBuffer kept sorted under a comparator.  The     *)
(* object is its RingBuffer; the comparator is the numeric one.            *)

\* numComparator: a - b, which is NaN when an operand is undefined
numComparator(a, b) == [nan |-> a = Empty \/ b = Empty, num |-> a - b]

\* constructor(comparator): this.#buffer = new RingBuffer()
BinarySearchArray == RingBuffer(DEFAULT_CAPACITY)

at(r, index) == peekAt(r, index)

\* lowerBound: while (left < right) with comparator(midValue, value) < 0
RECURSIVE lowerBoundLoop(_, _, _, _)
lowerBoundLoop(r, value, left, right) ==
  IF left < right
  THEN LET mid == (left + right) \div 2
           c == numComparator(peekAt(r, mid), value)
       IN IF ~c.nan /\ c.num < 0
          THEN lowerBoundLoop(r, value, mid + 1, right)
          ELSE lowerBoundLoop(r, value, left, mid)
  ELSE left

\* lowerBound with the search started at right = length - 1
lowerBoundShort(r, value) ==
  IF r.length = 0 THEN 0 ELSE lowerBoundLoop(r, value, 0, r.length - 1)

lowerBound(r, value) ==
  IF r.length = 0 THEN 0 ELSE lowerBoundLoop(r, value, 0, r.length)

\* upperBound: while (left < right) with comparator(midValue, value) <= 0
RECURSIVE upperBoundLoop(_, _, _, _)
upperBoundLoop(r, value, left, right) ==
  IF left < right
  THEN LET mid == (left + right) \div 2
           c == numComparator(peekAt(r, mid), value)
       IN IF ~c.nan /\ c.num <= 0
          THEN upperBoundLoop(r, value, mid + 1, right)
          ELSE upperBoundLoop(r, value, left, mid)
  ELSE left

upperBound(r, value) ==
  IF r.length = 0 THEN 0 ELSE upperBoundLoop(r, value, 0, r.length)

\* n >>> 1 on an int32: a negative number is read as n + 2^32
Ushr1(n) == IF n >= 0 THEN n \div 2 ELSE 2147483647 + ((n \div 2) + 1)

\* BinarySearchArray.indexOf: while (left <= right), -1 when nothing compares
\* equal.  `seen` holds the pairs (left, right) the loop has been through: the
\* loop is deterministic, so it never ends once a pair comes back, and then
\* the call does not return.
RECURSIVE bsIndexOfLoop(_, _, _, _, _)
bsIndexOfLoop(r, value, left, right, seen) ==
  IF left <= right
  THEN LET mid == Ushr1(left + right)
           c == numComparator(peekAt(r, mid), value)
           here == seen \cup {<<left, right>>}
       IN IF <<left, right>> \in seen THEN [returns |-> FALSE, index |-> -1]
          ELSE IF ~c.nan /\ c.num = 0 THEN [returns |-> TRUE, index |-> mid]
          ELSE IF ~c.nan /\ c.num < 0 THEN bsIndexOfLoop(r, value, mid + 1, right, here)
          ELSE bsIndexOfLoop(r, value, left, mid - 1, here)
  ELSE [returns |-> TRUE, index |-> -1]

bsIndexOf(r, value, index) ==
  IF r.length = 0 \/ index >= r.length THEN [returns |-> TRUE, index |-> -1]
  ELSE bsIndexOfLoop(r, value, index, r.length - 1, {})

\* BinarySearchArray.has
bsHas(r, value) == bsIndexOf(r, value, 0).index # -1

\* BinarySearchArray.insert
bsInsert(r, value) ==
  LET index == lowerBound(r, value)
  IN [self |-> setOne(r, index, value, TRUE).self, index |-> index]

\* BinarySearchArray.removeOne
bsRemoveOne(r, index) == removeOne(r, index)

\* BinarySearchArray.removeFirst
bsRemoveFirst(r, value) == removeOne(r, bsIndexOf(r, value, 0).index)

\* BinarySearchArray.remove
bsRemove(r, index, count) == deallocate(r, index, count).self

----------------------------------------------------------------------------
(* The state machine: one action per public call.  `call` records the last *)
(* call and its arguments, `ret` what it returned, `pre` the object just   *)
(* before the call; `model` is the reference deque of DequeSpec; `calls`   *)
(* counts the calls made since the first call that is not one of push,     *)
(* unshift, pop and shift, that call included.                             *)

NoArg == [op |-> "new", index |-> 0, count |-> 0, value |-> Empty, values |-> <<>>, insert |-> FALSE]

NoRet == [flag |-> TRUE, num |-> 0, arr |-> <<>>]

DequeOps == {"push", "unshift", "pop", "shift"}

\* the calls explored keep the object within the bounds
InBounds(r) == capacity(r) <= MaxCap /\ r.length <= MaxLen /\ Len(r.buffer) <= MaxCap

\* the number of slots of the backing array that hold 2
Twos(b) == Cardinality({i \in DOMAIN b : b[i] = 2})

\* the bound on the values a call may store
MayStore(vals) == Twos(buffer) + Twos(vals) <= MaxTwos \/ Twos(vals) = 0

Step(c, r, result) ==
  /\ (c.op \in DequeOps /\ calls = 0) \/ calls < MaxCalls
  /\ calls' = IF c.op \in DequeOps /\ calls = 0 THEN 0 ELSE calls + 1
  /\ InBounds(r)
  /\ buffer' = r.buffer
  /\ head' = r.head
  /\ tail' = r.tail
  /\ mask' = r.mask
  /\ length' = r.length
  /\ call' = c
  /\ ret' = result
  /\ pre' = This

Construct(c, r) ==
  /\ InBounds(r)
  /\ buffer = r.buffer
  /\ head = r.head
  /\ tail = r.tail
  /\ mask = r.mask
  /\ length = r.length
  /\ call = c
  /\ ret = NoRet
  /\ pre = r
  /\ calls = 0

\* sequences of n stored values within the bound on the value 2
Stored(n) == {vs \in [1..n -> Values] : Twos(vs) <= MaxTwos}

\* the indexes handed to a call: every live index, one below and two above
Indexes == -1..(length + 1)

\* the counts handed to allocate, deallocate and remove
Counts == 0..2

\* the capacities handed to grow and resize
Capacities == {1, DEFAULT_CAPACITY - 2, DEFAULT_CAPACITY, DEFAULT_CAPACITY + 1, 2 * DEFAULT_CAPACITY}

New(c) == Construct([NoArg EXCEPT !.index = c], RingBuffer(c))

From(values) == Construct([NoArg EXCEPT !.op = "from", !.values = values], from(values))

Push(v) == MayStore(<<v>>) /\ Step([NoArg EXCEPT !.op = "push", !.value = v], push(This, v), NoRet)

Unshift(v) == MayStore(<<v>>) /\ Step([NoArg EXCEPT !.op = "unshift", !.value = v], unshift(This, v), NoRet)

Shift ==
  LET res == shift(This)
  IN Step([NoArg EXCEPT !.op = "shift"], res.self, [NoRet EXCEPT !.num = res.value])

Pop ==
  LET res == pop(This)
  IN Step([NoArg EXCEPT !.op = "pop"], res.self, [NoRet EXCEPT !.num = res.value])

Grow(c) == Step([NoArg EXCEPT !.op = "grow", !.count = c], grow(This, c), NoRet)

Resize(c) ==
  LET res == resize(This, c)
  IN Step([NoArg EXCEPT !.op = "resize", !.count = c], res.self, [NoRet EXCEPT !.flag = res.ok])

Allocate(index, count) ==
  LET res == allocate(This, index, count)
  IN Step([NoArg EXCEPT !.op = "allocate", !.index = index, !.count = count],
          res.self, [NoRet EXCEPT !.flag = res.ok])

Deallocate(index, count) ==
  LET res == deallocate(This, index, count)
  IN Step([NoArg EXCEPT !.op = "deallocate", !.index = index, !.count = count],
          res.self, [NoRet EXCEPT !.flag = res.ok])

Unwrap ==
  LET res == unwrap(This)
  IN Step([NoArg EXCEPT !.op = "unwrap"], res.self, [NoRet EXCEPT !.flag = res.ok])

Compact(f) ==
  LET res == compact(This, f)
  IN Step([NoArg EXCEPT !.op = "compact", !.values = <<f>>], res.self, [NoRet EXCEPT !.flag = res.ok])

Clear == Step([NoArg EXCEPT !.op = "clear"], clear(This), NoRet)

Set(index, values, insert) ==
  LET res == set(This, index, values, insert)
  IN /\ MayStore(values)
     /\ Step([NoArg EXCEPT !.op = "set", !.index = index, !.values = values, !.insert = insert],
             res.self, [NoRet EXCEPT !.flag = res.ok])

SetOne(index, v, insert) ==
  LET res == setOne(This, index, v, insert)
  IN /\ MayStore(<<v>>)
     /\ Step([NoArg EXCEPT !.op = "setOne", !.index = index, !.value = v, !.insert = insert],
             res.self, [NoRet EXCEPT !.flag = res.ok])

RemoveOne(index) ==
  LET res == removeOne(This, index)
  IN Step([NoArg EXCEPT !.op = "removeOne", !.index = index], res.self, [NoRet EXCEPT !.num = res.index])

RemoveFirst(v, index) ==
  LET res == removeFirst(This, v, index)
  IN Step([NoArg EXCEPT !.op = "removeFirst", !.value = v, !.index = index],
          res.self, [NoRet EXCEPT !.num = res.index])

Remove(index, count) ==
  LET res == remove(This, index, count)
  IN Step([NoArg EXCEPT !.op = "remove", !.index = index, !.count = count],
          res.self, [NoRet EXCEPT !.arr = res.result])

\* allocate(index, count) followed immediately by deallocate(index, count)
AllocateDeallocate(index, count) ==
  LET a == allocate(This, index, count)
      d == deallocate(a.self, index, count)
  IN /\ InBounds(a.self)
     /\ Step([NoArg EXCEPT !.op = "allocateDeallocate", !.index = index, !.count = count],
             d.self, [NoRet EXCEPT !.flag = a.ok /\ d.ok])

\* one next() call on the iterator of drain(): the first one records in `pre`
\* the object drain() was called on, `ret.arr` collects the values yielded so
\* far and `ret.flag` is the `done` of this call
Drain ==
  LET started == call.op = "drain"
      yielded == IF started THEN ret.arr ELSE <<>>
      res == drainNext(This)
  IN /\ started \/ calls < MaxCalls
     /\ ~(started /\ ret.flag)
     /\ Len(yielded) <= MaxLen
     /\ calls' = IF started THEN calls ELSE calls + 1
     /\ buffer' = res.self.buffer
     /\ head' = res.self.head
     /\ tail' = res.self.tail
     /\ mask' = res.self.mask
     /\ length' = res.self.length
     /\ call' = [NoArg EXCEPT !.op = "drain"]
     /\ ret' = [flag |-> res.done,
                num |-> 0,
                arr |-> IF res.done THEN yielded ELSE Append(yielded, res.value)]
     /\ pre' = IF started THEN pre ELSE This

\* an iterator created and consumed until done: `ret.arr` holds what it yielded
Iter == Step([NoArg EXCEPT !.op = "iter"], This, [NoRet EXCEPT !.arr = iter(This)])

\* the values handed to the calls of a BinarySearchArray
Keys == 1..MaxKey

\* the inserts explored keep the BinarySearchArray within its bounds
SortedInBounds(r) ==
  capacity(r) <= MaxSortedCap /\ r.length <= MaxSortedLen /\ Len(r.buffer) <= MaxSortedCap

\* an insert into a BinarySearchArray: any number of them is explored
SortedStep(c, r, result) ==
  /\ SortedInBounds(r)
  /\ buffer' = r.buffer
  /\ head' = r.head
  /\ tail' = r.tail
  /\ mask' = r.mask
  /\ length' = r.length
  /\ call' = c
  /\ ret' = result
  /\ pre' = This
  /\ UNCHANGED calls

BsNew == Construct([NoArg EXCEPT !.op = "BinarySearchArray"], BinarySearchArray)

BsInsert(v) ==
  LET res == bsInsert(This, v)
  IN SortedStep([NoArg EXCEPT !.op = "insert", !.value = v], res.self, [NoRet EXCEPT !.num = res.index])

BsRemoveOne(index) ==
  LET res == bsRemoveOne(This, index)
  IN Step([NoArg EXCEPT !.op = "removeOne", !.index = index], res.self, [NoRet EXCEPT !.num = res.index])

BsRemoveFirst(v) ==
  LET res == bsRemoveFirst(This, v)
  IN Step([NoArg EXCEPT !.op = "removeFirst", !.value = v], res.self, [NoRet EXCEPT !.num = res.index])

BsRemove(index, count) ==
  Step([NoArg EXCEPT !.op = "remove", !.index = index, !.count = count],
       bsRemove(This, index, count), NoRet)

\* a call of push, unshift, pop or shift made to prepare the object: only the
\* object it leaves is kept, `call`, `ret` and `pre` do not record it
Setup(r) ==
  /\ calls = 0
  /\ InBounds(r)
  /\ buffer' = r.buffer
  /\ head' = r.head
  /\ tail' = r.tail
  /\ mask' = r.mask
  /\ length' = r.length
  /\ call' = [NoArg EXCEPT !.op = "setup"]
  /\ ret' = NoRet
  /\ pre' = r
  /\ calls' = 0
  /\ UNCHANGED model

SetupPush(v) == MayStore(<<v>>) /\ Setup(push(This, v))

SetupUnshift(v) == MayStore(<<v>>) /\ Setup(unshift(This, v))

SetupShift == Setup(shift(This).self)

SetupPop == Setup(pop(This).self)

SetupNext ==
  \/ \E v \in Values : SetupPush(v)
  \/ \E v \in Values : SetupUnshift(v)
  \/ SetupShift
  \/ SetupPop

----------------------------------------------------------------------------
(* DequeSpec: an empty RingBuffer driven by push, unshift, pop and shift,  *)
(* next to a plain sequence driven by the same calls.                      *)

\* the reference deque: its items, and the item its last pop or shift removed
NoItems == [items |-> <<>>, removed |-> Empty]

DequeInit ==
  /\ \E c \in 0..MaxCap : New(c)
  /\ model = NoItems

DequePush(v) == Push(v) /\ model' = [items |-> Append(model.items, v), removed |-> Empty]

DequeUnshift(v) == Unshift(v) /\ model' = [items |-> <<v>> \o model.items, removed |-> Empty]

DequeShift ==
  /\ Shift
  /\ model' = IF model.items = <<>> THEN NoItems
              ELSE [items |-> Tail(model.items), removed |-> Head(model.items)]

DequePop ==
  /\ Pop
  /\ model' = IF model.items = <<>> THEN NoItems
              ELSE [items |-> SubSeq(model.items, 1, Len(model.items) - 1),
                    removed |-> model.items[Len(model.items)]]

DequeNext ==
  \/ \E v \in Values : DequePush(v)
  \/ \E v \in Values : DequeUnshift(v)
  \/ DequeShift
  \/ DequePop

DequeSpec == DequeInit /\ [][DequeNext]_vars

----------------------------------------------------------------------------
(* ResizeSpec: an object built by either constructor, driven by push,      *)
(* unshift, pop, shift, resize and compact.                                *)

Init ==
  /\ \/ \E c \in 0..MaxCap : New(c)
     \/ \E n \in 0..MaxLen : \E values \in Stored(n) : From(values)
  /\ model = NoItems

ResizeNext ==
  \/ \E v \in Values : Push(v) /\ UNCHANGED model
  \/ \E v \in Values : Unshift(v) /\ UNCHANGED model
  \/ Shift /\ UNCHANGED model
  \/ Pop /\ UNCHANGED model
  \/ \E c \in Capacities : Resize(c) /\ UNCHANGED model
  \/ \E f \in Filters : Compact(f) /\ UNCHANGED model

ResizeSpec == Init /\ [][ResizeNext]_vars

----------------------------------------------------------------------------
(* GrowSpec: the same object driven by push, unshift, pop, shift, grow and *)
(* compact.                                                                *)

GrowNext ==
  \/ \E v \in Values : Push(v) /\ UNCHANGED model
  \/ \E v \in Values : Unshift(v) /\ UNCHANGED model
  \/ Shift /\ UNCHANGED model
  \/ Pop /\ UNCHANGED model
  \/ \E c \in {1, DEFAULT_CAPACITY - 1, DEFAULT_CAPACITY, mask + 1} : Grow(c) /\ UNCHANGED model
  \/ \E f \in Filters : Compact(f) /\ UNCHANGED model

GrowSpec == Init /\ [][GrowNext]_vars

----------------------------------------------------------------------------
(* The editing calls.  Each specification below prepares the object with   *)
(* any number of push, unshift, pop and shift calls (SetupNext) and then   *)
(* makes the calls it names; `calls = 0` marks the first of them.          *)

\* the value lists handed to set
ValueLists == {<<>>, <<1>>, <<2>>, <<1, 1>>, <<1, 2>>}

\* AllocSpec: one allocate or deallocate call.
AllocNext ==
  \/ SetupNext
  \/ calls = 0 /\ \E index \in Indexes, count \in Counts : Allocate(index, count) /\ UNCHANGED model
  \/ calls = 0 /\ \E index \in Indexes, count \in Counts : Deallocate(index, count) /\ UNCHANGED model

AllocSpec == Init /\ [][AllocNext]_vars

\* the <<index, count>> pairs with a negative index or a count of -1 or 0
RefusedArgs == {a \in Indexes \X ((-1)..1) : a[1] < 0 \/ a[2] <= 0}

\* RefusalSpec: one allocate or deallocate call with a negative index or a
\* count that is not positive.
RefusalNext ==
  \/ SetupNext
  \/ calls = 0 /\ \E a \in RefusedArgs : Allocate(a[1], a[2]) /\ UNCHANGED model
  \/ calls = 0 /\ \E a \in RefusedArgs : Deallocate(a[1], a[2]) /\ UNCHANGED model

RefusalSpec == Init /\ [][RefusalNext]_vars

\* RoundTripSpec: one allocate call undone at once by deallocate.
RoundTripNext ==
  \/ SetupNext
  \/ calls = 0 /\ \E index \in Indexes, count \in Counts :
        AllocateDeallocate(index, count) /\ UNCHANGED model

RoundTripSpec == Init /\ [][RoundTripNext]_vars

\* RemoveOneSpec: one removeOne call, made directly or after one resize call.
RemoveOneNext ==
  \/ SetupNext
  \/ calls = 0 /\ Resize(DEFAULT_CAPACITY) /\ UNCHANGED model
  \/ (calls = 0 \/ call.op = "resize") /\ \E index \in Indexes : RemoveOne(index) /\ UNCHANGED model

RemoveOneSpec == Init /\ [][RemoveOneNext]_vars

\* RemoveSpec: one removeFirst or remove call.
RemoveNext ==
  \/ SetupNext
  \/ calls = 0 /\ \E index \in Indexes, v \in Values : RemoveFirst(v, index) /\ UNCHANGED model
  \/ calls = 0 /\ \E index \in Indexes, count \in Counts : Remove(index, count) /\ UNCHANGED model

RemoveSpec == Init /\ [][RemoveNext]_vars

\* InsertSpec: one inserting set call, or one inserting setOne call made
\* directly or after one resize call.
InsertNext ==
  \/ SetupNext
  \/ calls = 0 /\ Resize(DEFAULT_CAPACITY) /\ UNCHANGED model
  \/ calls = 0 /\ \E index \in Indexes, values \in ValueLists :
        Set(index, values, TRUE) /\ UNCHANGED model
  \/ (calls = 0 \/ call.op = "resize") /\ \E index \in Indexes, v \in Values :
        SetOne(index, v, TRUE) /\ UNCHANGED model

InsertSpec == Init /\ [][InsertNext]_vars

\* OverwriteSpec: one overwriting set call, or one overwriting setOne call made
\* directly or after one resize call.
OverwriteNext ==
  \/ SetupNext
  \/ calls = 0 /\ Resize(DEFAULT_CAPACITY) /\ UNCHANGED model
  \/ calls = 0 /\ \E index \in Indexes, values \in ValueLists :
        Set(index, values, FALSE) /\ UNCHANGED model
  \/ (calls = 0 \/ call.op = "resize") /\ \E index \in Indexes, v \in Values :
        SetOne(index, v, FALSE) /\ UNCHANGED model

OverwriteSpec == Init /\ [][OverwriteNext]_vars

\* UnwrapSpec: one unwrap call, made directly or after one resize call.
UnwrapNext ==
  \/ SetupNext
  \/ calls = 0 /\ Resize(DEFAULT_CAPACITY) /\ UNCHANGED model
  \/ (calls = 0 \/ call.op = "resize") /\ Unwrap /\ UNCHANGED model

UnwrapSpec == Init /\ [][UnwrapNext]_vars

\* ClearSpec: one clear call, made directly or after one resize or compact call.
ClearNext ==
  \/ SetupNext
  \/ calls = 0 /\ Resize(DEFAULT_CAPACITY) /\ UNCHANGED model
  \/ calls = 0 /\ \E f \in Filters : Compact(f) /\ UNCHANGED model
  \/ (calls = 0 \/ call.op \in {"resize", "compact"}) /\ Clear /\ UNCHANGED model

ClearSpec == Init /\ [][ClearNext]_vars

\* DrainSpec: one drain() iterator consumed step by step, obtained directly or
\* after one resize call.
DrainNext ==
  \/ SetupNext
  \/ calls = 0 /\ Resize(DEFAULT_CAPACITY) /\ UNCHANGED model
  \/ (calls = 0 \/ call.op \in {"resize", "drain"}) /\ Drain /\ UNCHANGED model

DrainSpec == Init /\ [][DrainNext]_vars

\* IterSpec: one iterator consumed, created directly or after one resize call.
IterNext ==
  \/ SetupNext
  \/ calls = 0 /\ Resize(DEFAULT_CAPACITY) /\ UNCHANGED model
  \/ (calls = 0 \/ call.op = "resize") /\ Iter /\ UNCHANGED model

IterSpec == Init /\ [][IterNext]_vars

\* SortedSpec: an empty BinarySearchArray driven by insert, removeOne and
\* removeFirst up to MaxLen elements, followed by one recorded call of
\* removeOne, removeFirst or remove.
SortedInit == BsNew /\ model = NoItems

SortedNext ==
  \/ calls = 0 /\ length < MaxLen /\ \E v \in Keys : BsInsert(v) /\ UNCHANGED model
  \/ \E index \in Indexes : Setup(bsRemoveOne(This, index).self) /\ UNCHANGED model
  \/ \E v \in Keys : Setup(bsRemoveFirst(This, v).self) /\ UNCHANGED model
  \/ calls = 0 /\ \E index \in Indexes : BsRemoveOne(index) /\ UNCHANGED model
  \/ calls = 0 /\ \E v \in Keys : BsRemoveFirst(v) /\ UNCHANGED model
  \/ calls = 0 /\ \E index \in Indexes : \E count \in Counts : BsRemove(index, count) /\ UNCHANGED model

SortedSpec == SortedInit /\ [][SortedNext]_vars

\* the sorted list with v placed before the first element that is not below it
Placed(items, v) ==
  LET k == Cardinality({i \in 1..Len(items) : items[i] < v})
  IN SubSeq(items, 1, k) \o <<v>> \o SubSeq(items, k + 1, Len(items))

\* SortedInsertSpec: an empty BinarySearchArray driven by insert alone; `model`
\* is the sorted list of the values inserted so far.
SortedInsertNext ==
  \E v \in Keys : BsInsert(v) /\ model' = [items |-> Placed(model.items, v), removed |-> Empty]

SortedInsertSpec == SortedInit /\ [][SortedInsertNext]_vars

\* the values of the scenario, in the order they are inserted
Scenario == <<5, 2, 8, 1>>

\* ScenarioSpec: an empty BinarySearchArray that receives as many inserts as
\* the scenario has, each of one of its values; `model.items` lists the values
\* in the order they were inserted.
ScenarioNext ==
  /\ Len(model.items) < Len(Scenario)
  /\ \E k \in DOMAIN Scenario : BsInsert(Scenario[k])
                                 /\ model' = [items |-> Append(model.items, Scenario[k]),
                                              removed |-> Empty]

ScenarioSpec == SortedInit /\ [][ScenarioNext]_vars

\* CompactSpec: one compact call.
CompactNext ==
  \/ SetupNext
  \/ calls = 0 /\ \E f \in Filters : Compact(f) /\ UNCHANGED model

CompactSpec == Init /\ [][CompactNext]_vars

----------------------------------------------------------------------------
(* The logical content, and the properties of the specification.           *)

\* [peekAt(0), ..., peekAt(length - 1)]
Content(r) == [i \in 1..r.length |-> peekAt(r, i - 1)]

\* C1: from an empty RingBuffer, after any sequence of push, unshift, pop and
\* shift calls, toArray() is the content of the reference deque driven by the
\* same calls, and each pop and shift returns the item the reference removes
\* (undefined when the reference is empty).
C1_DequeRefinement ==
  /\ toArray(This) = model.items
  /\ call.op \in {"pop", "shift"} => ret.num = model.removed

\* C1's case: a push that grew a wrapped buffer holding both values
C1_Witness ==
  /\ call.op = "push"
  /\ isWrapped(pre)
  /\ capacity(pre) < capacity(This)
  /\ \E i \in 1..Len(model.items) : model.items[i] = 2
  /\ toArray(This) = model.items

\* C2: isEmpty() is true exactly when length is 0.
C2_IsEmptyIffNoLength == isEmpty(This) <=> length = 0

\* C3: length is strictly less than capacity.
C3_LengthBelowCapacity == length < capacity(This)

\* C4: push(v) makes toArray() the previous toArray() followed by v, unshift(v)
\* makes it v followed by the previous toArray(); length grows by one and every
\* element that was live keeps its place in the logical content.
C4_PushUnshiftKeepContent ==
  /\ call.op = "push" =>
       /\ toArray(This) = Append(toArray(pre), call.value)
       /\ Content(This) = Append(Content(pre), call.value)
       /\ length = pre.length + 1
  /\ call.op = "unshift" =>
       /\ toArray(This) = <<call.value>> \o toArray(pre)
       /\ Content(This) = <<call.value>> \o Content(pre)
       /\ length = pre.length + 1

\* C5: grow(c) leaves length and toArray() unchanged and never decreases capacity.
C5_GrowKeepsContent ==
  call.op = "grow" =>
    /\ length = pre.length
    /\ toArray(This) = toArray(pre)
    /\ capacity(This) >= capacity(pre)

\* C6: when resize(c) returns true, toArray() and length are what they were.
C6_ResizeKeepsContent ==
  call.op = "resize" /\ ret.flag =>
    /\ toArray(This) = toArray(pre)
    /\ length = pre.length

\* C7: resize(c) returns false and changes nothing when c is smaller than the
\* capacity but larger than half of it, or when the capacity rounded from c is
\* smaller than length.
C7_ResizeRefusal ==
  call.op = "resize"
  /\ \/ call.count < capacity(pre) /\ 2 * call.count > capacity(pre)
     \/ roundSize(call.count) < pre.length
  => ret.flag = FALSE /\ This = pre

\* C8: indexOf(v, fromIndex), for fromIndex in [0, length], is Array.indexOf(v,
\* fromIndex) on the logical content.
C8_IndexOfMatchesArray ==
  \A v \in Values, fromIndex \in 0..length :
    indexOf(This, v, fromIndex) = ArrayIndexOf(Content(This), v, fromIndex)

\* C9: has(v) is true exactly when some live element equals v.
C9_HasIffLive ==
  \A v \in Values : has(This, v) <=> \E i \in 0..(length - 1) : peekAt(This, i) = v

\* C10: slice(start, end) is Array.slice(start, end) on the logical content, and
\* toArray() is the whole content, with exactly length elements.
C10_SliceMatchesArray ==
  /\ \A start, end \in (-(length + 1))..(length + 1) :
       slice(This, start, end) = ArraySlice(Content(This), start, end)
  /\ toArray(This) = Content(This)
  /\ Len(toArray(This)) = length

\* the gap allocate opens: count empty slots
Gap(count) == [i \in 1..count |-> Empty]

\* C11: allocate(index, count) with index >= 0 and count > 0 returns true, adds
\* count to length and makes the logical content the previous content with
\* count empty slots inserted at min(index, length).
C11_AllocateOpensGap ==
  call.op = "allocate" /\ call.index >= 0 /\ call.count > 0 =>
    /\ ret.flag
    /\ length = pre.length + call.count
    /\ Content(This) =
         ArraySplice(Content(pre), Min(call.index, pre.length), 0, Gap(call.count))

\* C12: deallocate(index, count) with 0 <= index < length and count > 0 returns
\* true and makes the logical content the previous content without the
\* min(count, length - index) elements starting at index.
C12_DeallocateRemovesRange ==
  call.op = "deallocate" /\ call.index >= 0 /\ call.index < pre.length /\ call.count > 0 =>
    /\ ret.flag
    /\ length = pre.length - Min(call.count, pre.length - call.index)
    /\ Content(This) = ArraySplice(Content(pre), call.index, call.count, <<>>)

\* C13: allocate(index, count) followed immediately by deallocate(index, count),
\* for 0 <= index <= length and count > 0, restores toArray() and length.
C13_AllocateDeallocateRoundTrip ==
  call.op = "allocateDeallocate" /\ call.index >= 0 /\ call.index <= pre.length /\ call.count > 0 =>
    /\ toArray(This) = toArray(pre)
    /\ length = pre.length

\* C14: allocate and deallocate return false and change nothing when index < 0
\* or count <= 0.
C14_AllocateDeallocateRefusal ==
  call.op \in {"allocate", "deallocate"} /\ (call.index < 0 \/ call.count <= 0) =>
    ret.flag = FALSE /\ This = pre

\* C14's case: allocate refused a count of 0 on a wrapped buffer holding elements
C14_Witness ==
  /\ call.op = "allocate"
  /\ call.index = 1
  /\ call.count = 0
  /\ isWrapped(pre)
  /\ pre.length > 1
  /\ ret.flag = FALSE
  /\ This = pre

\* C15: allocate, deallocate, set and setOne called with index > length return
\* false and change nothing.
C15_IndexBeyondLengthRefused ==
  call.op \in {"allocate", "deallocate", "set", "setOne"} /\ call.index > pre.length =>
    ret.flag = FALSE /\ This = pre

\* C16: removeOne(index) with 0 <= index < length returns index, takes one off
\* length and makes toArray() the previous array without the element at index;
\* for any other index it returns -1 and changes nothing.
C16_RemoveOne ==
  call.op = "removeOne" =>
    IF call.index >= 0 /\ call.index < pre.length
    THEN /\ ret.num = call.index
         /\ length = pre.length - 1
         /\ toArray(This) = ArraySplice(toArray(pre), call.index, 1, <<>>)
    ELSE ret.num = -1 /\ This = pre

\* C17: removeFirst(v, fromIndex) removes the first element at a logical index
\* >= fromIndex that equals v and returns that index; when there is none it
\* returns -1 and changes nothing.
C17_RemoveFirst ==
  call.op = "removeFirst" /\ call.index >= 0 /\ call.index <= pre.length =>
    LET first == ArrayIndexOf(Content(pre), call.value, call.index)
    IN /\ ret.num = first
       /\ IF first = -1 THEN This = pre
          ELSE /\ length = pre.length - 1
               /\ toArray(This) = ArraySplice(toArray(pre), first, 1, <<>>)

\* C18: the array remove(index, count) returns holds exactly the elements the
\* call removed: the previous toArray() is the new toArray() with the returned
\* elements put back at index, and when nothing is removed the array is empty.
C18_RemoveReturnsRemoved ==
  call.op = "remove" =>
    /\ This = pre => ret.arr = <<>>
    /\ This # pre => toArray(pre) = ArraySplice(toArray(This), call.index, 0, ret.arr)

\* C19: set(index, values, true) and setOne(index, value, true) with
\* 0 <= index <= length return true and make toArray() the previous array with
\* the values spliced in at index; length grows by the number of values.
C19_SetInserts ==
  call.op \in {"set", "setOne"} /\ call.insert /\ call.index >= 0 /\ call.index <= pre.length =>
    LET values == IF call.op = "set" THEN call.values ELSE <<call.value>>
    IN /\ ret.flag
       /\ length = pre.length + Len(values)
       /\ toArray(This) = ArraySplice(toArray(pre), call.index, 0, values)

\* C20: set(index, values) and setOne(index, value) without insert, for
\* 0 <= index <= length, overwrite the logical positions index, index + 1, ...
\* and extend length to max(length, index + number of values); every element
\* outside the written range keeps its value and position.
C20_SetOverwrites ==
  call.op \in {"set", "setOne"} /\ ~call.insert /\ call.index >= 0 /\ call.index <= pre.length =>
    LET values == IF call.op = "set" THEN call.values ELSE <<call.value>>
        n == Len(values)
    IN /\ length = Max(pre.length, call.index + n)
       /\ Content(This) =
            [i \in 1..Max(pre.length, call.index + n) |->
               IF i > call.index /\ i <= call.index + n
               THEN values[i - call.index]
               ELSE Content(pre)[i]]

\* C21: unwrap() on a non-empty buffer returns true, puts the first element at
\* backing offset 0, leaves isWrapped() false and keeps toArray(), length and
\* capacity; on an empty buffer it returns false and changes nothing.
C21_Unwrap ==
  call.op = "unwrap" =>
    IF pre.length > 0
    THEN /\ ret.flag
         /\ head = 0
         /\ Get(buffer, 0) = peekAt(pre, 0)
         /\ ~isWrapped(This)
         /\ toArray(This) = toArray(pre)
         /\ length = pre.length
         /\ capacity(This) = capacity(pre)
    ELSE ret.flag = FALSE /\ This = pre

\* C22: compact(p) makes toArray() the previous elements for which
\* p(value, originalLogicalIndex) is true, in their order, sets length to their
\* number and returns true exactly when at least one element was removed.
C22_CompactKeepsMatching ==
  call.op = "compact" =>
    LET kept == ArrayFilter(toArray(pre), call.values[1], 1)
    IN /\ toArray(This) = kept
       /\ length = Len(kept)
       /\ ret.flag <=> Len(kept) < pre.length

C24_DrainExhausts ==
  call.op = "drain" =>
    /\ Len(ret.arr) <= Len(toArray(pre))
    /\ ret.arr = SubSeq(toArray(pre), 1, Len(ret.arr))
    /\ ret.flag => /\ ret.arr = toArray(pre)
                   /\ Len(ret.arr) = pre.length
                   /\ length = 0
                   /\ isEmpty(This)

\* C25: every next() of drain() either removes one element (length decreases
\* by exactly one) or reports done, and no more values are yielded than the
\* buffer held when drain() was called.
C25_DrainTerminates ==
  /\ [](call.op = "drain" => Len(ret.arr) <= pre.length)
  /\ [][call'.op = "drain" => ret'.flag \/ length' = length - 1]_vars

\* C26: the plain iterator yields exactly length elements, equal to toArray()
\* in logical order, and consuming it changes neither head, tail, length,
\* capacity nor any slot of the buffer.
C26_IteratorYieldsContent ==
  call.op = "iter" =>
    /\ Len(ret.arr) = pre.length
    /\ ret.arr = toArray(pre)
    /\ This = pre

\* C27: peekAt(i) returns absent for every i outside [0, length), and on a
\* buffer whose length is 0 peekFirst() and peekLast() return absent.
C27_ReadsOnlyLive ==
  /\ \A i \in Indexes : (i < 0 \/ i >= length) => peekAt(This, i) = Empty
  /\ length = 0 => peekFirst(This) = Empty /\ peekLast(This) = Empty

\* C28: after every insert, removeOne, removeFirst and remove of a
\* BinarySearchArray the logical sequence is sorted under the comparator,
\* cmp(at(i), at(i + 1)) <= 0 for all 0 <= i < length - 1, and no position
\* below length holds an empty slot.
C28_SortedInvariant ==
  /\ \A i \in 0..(length - 2) :
       LET c == numComparator(at(This, i), at(This, i + 1)) IN ~c.nan /\ c.num <= 0
  /\ \A i \in 0..(length - 1) : at(This, i) # Empty

\* C29: after any sequence of insert(v) calls on an empty BinarySearchArray
\* iteration yields the inserted values in comparator order, length is the
\* number of insertions, and each insert returns lowerBound(v) as computed just
\* before the insertion, the position before the existing equal elements.
C29_InsertKeepsSorted ==
  /\ iter(This) = model.items
  /\ length = Len(model.items)
  /\ call.op = "insert" =>
       /\ ret.num = lowerBound(pre, call.value)
       /\ ret.num = Cardinality({i \in 1..Len(iter(pre)) : iter(pre)[i] < call.value})
       /\ at(This, ret.num) = call.value

\* C30: on a BinarySearchArray populated via insert, lowerBound(v) is the number
\* of inserted elements ordered strictly before v and upperBound(v) the number
\* of inserted elements ordered before or equal to v, so lowerBound(v) <=
\* upperBound(v), the indices whose element equals v are exactly those from
\* lowerBound(v) up to upperBound(v), and both are 0 on an empty array.
C30_BoundsCount ==
  \A v \in 1..(MaxKey + 1) :
    /\ lowerBound(This, v) =
         Cardinality({i \in 1..Len(model.items) : numComparator(model.items[i], v).num < 0})
    /\ upperBound(This, v) =
         Cardinality({i \in 1..Len(model.items) : numComparator(model.items[i], v).num <= 0})
    /\ lowerBound(This, v) <= upperBound(This, v)
    /\ \A i \in 0..(length - 1) :
         at(This, i) = v <=> (lowerBound(This, v) <= i /\ i < upperBound(This, v))
    /\ length = 0 => lowerBound(This, v) = 0 /\ upperBound(This, v) = 0

\* C31: inserting 5, 2, 8, 1 into an empty BinarySearchArray with the numeric
\* ascending comparator yields [1,2,5,8], and then lowerBound(3) and
\* upperBound(3) are both 2, the position where 3 would be inserted.
C31_Scenario ==
  model.items = Scenario =>
    /\ iter(This) = <<1, 2, 5, 8>>
    /\ lowerBound(This, 3) = 2
    /\ upperBound(This, 3) = 2

\* the four inserts of the scenario have been made
C31_Witness ==
  /\ model.items = Scenario
  /\ call.op = "insert"
  /\ call.value = 1
  /\ length = 4

\* C31 as stated: after the four inserts lowerBound(3) == 1 and
\* upperBound(3) == 1
C31_AsStated ==
  model.items = Scenario =>
    /\ iter(This) = <<1, 2, 5, 8>>
    /\ lowerBound(This, 3) = 1
    /\ upperBound(This, 3) = 1

\* C32: BinarySearchArray.indexOf(v, fromIndex) returns an index i with
\* fromIndex <= i < length whose element compares equal to v whenever there is
\* one, and -1 otherwise; has(v) is true exactly when indexOf(v) is not -1.
C32_IndexOfFindsEqual ==
  \A v \in Keys :
    /\ \A fromIndex \in Indexes :
         LET res == bsIndexOf(This, v, fromIndex)
             hits == {i \in 0..(length - 1) :
                        fromIndex <= i /\ numComparator(at(This, i), v) = numComparator(v, v)}
         IN /\ res.returns
            /\ hits # {} => res.index \in hits
            /\ hits = {} => res.index = -1
    /\ bsHas(This, v) <=> bsIndexOf(This, v, 0).index # -1

\* C33: BinarySearchArray.removeFirst(v) removes the element at the lowest
\* index that compares equal to v, the index lowerBound(v), and returns that
\* index; when no element compares equal it returns -1 and removes nothing.
C33_RemoveFirstLowest ==
  call.op = "removeFirst" =>
    LET first == lowerBound(pre, call.value)
        before == iter(pre)
    IN IF first < pre.length /\ at(pre, first) = call.value
       THEN /\ ret.num = first
            /\ iter(This) = SubSeq(before, 1, first) \o SubSeq(before, first + 2, Len(before))
       ELSE ret.num = -1 /\ This = pre

\* n is the smallest power of two that is at least m
SmallestPowerOfTwo(n, m) == n >= m /\ n \div 2 < m /\ \E k \in 0..30 : n = 2^k

\* C34: new RingBuffer(c), for every c from 0 to MaxCap, creates an empty
\* buffer with head = tail = length = 0 whose capacity is the smallest power of
\* two >= max(c, 8), and so does new RingBuffer() with no argument.
C34_ConstructorCapacity ==
  /\ call.op = "new" =>
       /\ head = 0 /\ tail = 0 /\ length = 0
       /\ isEmpty(This)
       /\ SmallestPowerOfTwo(capacity(This), Max(call.index, 8))
       /\ buffer = NewArray(capacity(This))
  /\ capacity(RingBuffer(DEFAULT_CAPACITY)) = 8
  /\ RingBuffer(DEFAULT_CAPACITY).length = 0

\* a constructed buffer whose requested capacity was rounded up
C34_Witness ==
  /\ call.op = "new"
  /\ call.index = 9
  /\ capacity(This) = 16
  /\ length = 0

\* C35: RingBuffer.from(values) with n values gives length n, isWrapped()
\* false, toArray() equal to values in order and a capacity that is the
\* smallest power of two >= max(n + 1, 8), so that length < capacity.
C35_FromValues ==
  call.op = "from" =>
    LET n == Len(call.values)
    IN /\ length = n
       /\ ~isWrapped(This)
       /\ toArray(This) = call.values
       /\ SmallestPowerOfTwo(capacity(This), Max(n + 1, 8))
       /\ length < capacity(This)

\* from() was given as many values as the default capacity holds
C35_Witness ==
  /\ call.op = "from"
  /\ Len(call.values) = 8
  /\ capacity(This) = 16
  /\ length = 8

\* C36: length == (tail - head) mod capacity after every public call.
C36_LengthIsTailMinusHead ==
  length = (tail - head) % capacity(This)

\* C37: head and tail are offsets within [0, capacity) after every public call.
C37_OffsetsWithinCapacity ==
  /\ 0 <= head /\ head < capacity(This)
  /\ 0 <= tail /\ tail < capacity(This)

\* C38: the backing array's length equals capacity (mask + 1), and capacity is
\* a power of two >= 8.
C38_ArrayLengthIsCapacity ==
  /\ Len(buffer) = capacity(This)
  /\ capacity(This) >= 8
  /\ \E k \in 0..30 : capacity(This) = 2^k

\* C40: every backing slot outside the live range, the offsets
\* (head + i) mod capacity for 0 <= i < length, holds the empty marker.
C40_NoStaleSlots ==
  \A k \in 0..(Len(buffer) - 1) :
    (\A i \in 0..(length - 1) : k # (head + i) % capacity(This)) => Get(buffer, k) = Empty

\* C39: grow(c) does nothing when capacity > c; otherwise capacity becomes the
\* smallest power of two strictly greater than c, so grow() without argument,
\* which is grow(capacity), doubles the capacity.
C39_GrowCapacity ==
  call.op = "grow" =>
    /\ IF capacity(pre) > call.count
       THEN This = pre
       ELSE SmallestPowerOfTwo(capacity(This), call.count + 1)
    /\ call.count = capacity(pre) => capacity(This) = 2 * capacity(pre)

====
